---- MODULE Spec2Model ----
(***************************************************************************)
(* Adaptive personalization and progress-analytics engine of the learning  *)
(* path application: the progress tracker and adaptation advisor of        *)
(* ai_services/mcp_integration.py, and the path generation pipeline of     *)
(* services/learning_service.py, ai_services/mcp_integration.py,           *)
(* ai_services/langchain_integration.py and ai_services/gemini_client.py.  *)
(*                                                                         *)
(* Numbers that Python computes as floats (means, percentages) are kept    *)
(* exact as fractions [num, den]; they are compared by cross               *)
(* multiplication.                                                         *)
(***************************************************************************)
EXTENDS Integers, Sequences, FiniteSets, TLC

(***************************************************************************)
(* Bounds of the model                                                     *)
(***************************************************************************)
\* largest day number a progress report names
MaxDay == 8
\* number of progress reports in one behaviour of SpecTrack
MaxReports == 9
\* number of reports of SpecTrack that are arbitrary (any key, day, fields)
MaxFree == 1
\* number of progress reports in one behaviour of SpecHistory
MaxHistReports == 32

Users == {"u1", "u2"}
Paths == {"p1"}
Days == 1..MaxDay

(***************************************************************************)
(* Python values                                                           *)
(***************************************************************************)
\* x / y of two ints, kept exact
Frac(n, d) == [num |-> n, den |-> d]
FracEq(a, b) == a.num * b.den = b.num * a.den
FracLT(a, b) == a.num * b.den < b.num * a.den
\* the int n as a fraction
FracInt(n) == Frac(n, 1)

\* dict.get(key, default) on a dict modelled as a function
Get(d, k, default) == IF k \in DOMAIN d THEN d[k] ELSE default

\* d[k] = v on a dict modelled as a function
Put(d, k, v) == [x \in (DOMAIN d) \cup {k} |-> IF x = k THEN v ELSE d[x]]

\* the empty dict
EmptyDict == [x \in {} |-> 0]

\* A dict whose iteration order matters is the sequence of its items
\* [key, value] in insertion order.
OKeys(od) == [i \in 1..Len(od) |-> od[i].key]
OHas(od, k) == \E i \in 1..Len(od) : od[i].key = k
OGet(od, k) == od[CHOOSE i \in 1..Len(od) : od[i].key = k].value
\* od[k] = v: an existing key keeps its position, a new key goes last
OPut(od, k, v) ==
    IF OHas(od, k)
    THEN [i \in 1..Len(od) |-> IF od[i].key = k THEN [key |-> k, value |-> v] ELSE od[i]]
    ELSE Append(od, [key |-> k, value |-> v])

\* seq[-n:]
LastN(seq, n) ==
    IF Len(seq) <= n THEN seq ELSE SubSeq(seq, Len(seq) - n + 1, Len(seq))

RECURSIVE SumSeq(_)
SumSeq(s) == IF s = <<>> THEN 0 ELSE Head(s) + SumSeq(Tail(s))

\* int(True) = 1, int(False) = 0, as sum() adds booleans
BoolInt(b) == IF b THEN 1 ELSE 0

(***************************************************************************)
(* Progress tracker: MCPIntegration.track_learning_progress                *)
(***************************************************************************)
\* window of _update_performance_trends
TrendWindow == 7
\* cap of the trend history
TrendCap == 30

VARIABLES
    learning_analytics,  \* MCPIntegration.learning_analytics: user -> path -> entry
    now,                 \* the clock read by datetime.now()
    computed,            \* history variable: every trend computed, per (user, path)
    recent_calls,        \* the latest progress reports, at most two, oldest first
    free_used,           \* number of arbitrary reports made so far
    suggestions          \* << >> or <<the latest call of suggest_adaptations and its result>>

trackVars == <<learning_analytics, now, computed, recent_calls, free_used, suggestions>>

NewEntry == [daily_progress |-> <<>>, performance_trends |-> <<>>, adaptation_history |-> <<>>]

\* the record stored for a day
ProgressRecord(daily_progress, t) ==
    [completed |-> Get(daily_progress, "completed", FALSE),
     time_spent |-> Get(daily_progress, "time_spent", 0),
     difficulty_rating |-> Get(daily_progress, "difficulty_rating", 3),
     satisfaction |-> Get(daily_progress, "satisfaction", 3),
     timestamp |-> t]

\* the trend over recent, the items of daily_progress that recent_days names
TrendOver(recent, t) ==
    [date |-> t,
     completion_rate |->
         Frac(100 * SumSeq([i \in 1..Len(recent) |-> BoolInt(recent[i].value.completed)]),
              Len(recent)),
     avg_time_spent |->
         Frac(SumSeq([i \in 1..Len(recent) |-> recent[i].value.time_spent]), Len(recent)),
     avg_difficulty_rating |->
         Frac(SumSeq([i \in 1..Len(recent) |-> recent[i].value.difficulty_rating]),
              Len(recent)),
     days_analyzed |-> Len(recent)]

\* recent_days = list(daily_progress.keys())[-7:], each key with its record
RecentDays(daily_progress) == LastN(daily_progress, TrendWindow)

\* the trend _update_performance_trends computes from daily_progress
Trend(daily_progress, t) == TrendOver(RecentDays(daily_progress), t)

\* seq[:n]
FirstN(seq, n) == IF Len(seq) <= n THEN seq ELSE SubSeq(seq, 1, n)

\* mutant of UpdatePerformanceTrends: the cap keeps the oldest trends ([:30])
UpdatePerformanceTrendsKeepOldest(analytics, t) ==
    [analytics EXCEPT !.performance_trends =
        FirstN(Append(@, Trend(analytics.daily_progress, t)), TrendCap)]

\* the entry of (user, path) after _update_performance_trends
UpdatePerformanceTrends(analytics, t) ==
    IF analytics.daily_progress # <<>>
    THEN [analytics EXCEPT !.performance_trends =
             LastN(Append(@, Trend(analytics.daily_progress, t)), TrendCap)]
    ELSE analytics

\* mutant of UpsertRecord: a repeated report adds its time to the stored one
UpsertRecordAccumulating(dp, day, rec) ==
    IF OHas(dp, day)
    THEN OPut(dp, day, [rec EXCEPT !.time_spent = @ + OGet(dp, day).time_spent])
    ELSE OPut(dp, day, rec)

\* daily_progress[str(day)] = {...}
UpsertRecord(dp, day, rec) == OPut(dp, day, rec)

HasEntry(la, u, p) == u \in DOMAIN la /\ p \in DOMAIN la[u]

\* the entry of (user_id, path_id), created by lines 273-281 when it is missing
EntryOrNew(la, user_id, path_id) ==
    IF HasEntry(la, user_id, path_id) THEN la[user_id][path_id] ELSE NewEntry

\* mutant of SetEntry: the store is rebuilt around the entry written
SetEntryAlone(la, user_id, path_id, e) ==
    Put(EmptyDict, user_id, Put(EmptyDict, path_id, e))

\* learning_analytics[user_id][path_id] = e, the user's dict created when missing
SetEntry(la, user_id, path_id, e) ==
    Put(la, user_id,
        Put(IF user_id \in DOMAIN la THEN la[user_id] ELSE EmptyDict, path_id, e))

\* the entry after the record of the day is stored and the trends are updated
TrackEntry(e, daily_progress, t) ==
    UpdatePerformanceTrends(
        [e EXCEPT !.daily_progress =
            UpsertRecord(@, Get(daily_progress, "day", 1), ProgressRecord(daily_progress, t))],
        t)

\* learning_analytics after track_learning_progress(user_id, path_id, daily_progress)
TrackLearningProgress(la, user_id, path_id, daily_progress, t) ==
    SetEntry(la, user_id, path_id,
             TrackEntry(EntryOrNew(la, user_id, path_id), daily_progress, t))

(***************************************************************************)
(* Path generation: LearningService.create_learning_path,                  *)
(* MCPIntegration.generate_adaptive_path,                                  *)
(* LangChainIntegration.create_learning_path_with_context and              *)
(* GeminiClient.generate_mcp_learning_path / generate_normal_learning_path *)
(***************************************************************************)
\* largest duration create_learning_path accepts
MaxDuration == 90
\* step of the checkpoint days in _generate_checkpoints
CheckpointStep == 3

VARIABLES
    pc,                  \* where create_learning_path stands
    request,             \* << >> or <<the path_data of the call, with its user>>
    client,              \* whether GeminiClient.client is set (an API key is configured)
    attempt,             \* 1 in the try block of generate_adaptive_path, 2 in its except block
    gen_calls,           \* calls of client.models.generate_content made for this request
    learning_path,       \* << >> or <<the path dict in hand>>
    adaptive_outcome,    \* how generate_adaptive_path ended: "none", "returned", "raised"
    result,              \* what create_learning_path returned: "pending", "None", "path_id"
    conversation_history,\* length of LangChainIntegration.conversation_history
    context_store,       \* users with an entry in MCPIntegration.context_store
    demo_data            \* the store: learning_paths (ids saved) and progress

genVars == <<pc, request, client, attempt, gen_calls, learning_path, adaptive_outcome,
             result, conversation_history, context_store, demo_data>>

\* A goal string, as far as the validations read it: its length, its length
\* stripped of surrounding blanks, and its number of words.
Goals ==
    { [len |-> 0, stripped |-> 0, words |-> 0],       \* ""
      [len |-> 6, stripped |-> 6, words |-> 1],       \* "Python"
      [len |-> 12, stripped |-> 12, words |-> 2],     \* "Learn Python"
      [len |-> 200, stripped |-> 200, words |-> 30],  \* 200 characters
      [len |-> 201, stripped |-> 201, words |-> 30] } \* 201 characters

\* the difficulty levels of the selection boxes
DifficultyLevels == {"beginner", "intermediate", "advanced", "expert"}
\* the difficulties a caller passes
Difficulties == {"beginner", "guru"}
PathTypes == {"mcp", "normal"}
Durations == 0..(MaxDuration + 1)

\* len(goal.strip()) >= 3, at least 2 words, at most 200 characters
validate_learning_goal(goal) ==
    IF goal.len = 0 \/ goal.stripped < 3
    THEN FALSE
    ELSE goal.words >= 2 /\ goal.stripped <= 200

\* the keys of the daily plans of _generate_demo_mcp_learning_path (lines
\* 231-262), which are those the prompt of generate_mcp_learning_path asks for
PlanKeysMcp ==
    {"day", "title", "objectives", "content", "activities", "estimated_time", "resources",
     "key_concepts", "checkpoint", "alternatives", "metacognitive_element"}
\* the keys of the daily plans of _generate_demo_learning_path (lines 187-212),
\* which are those the prompt of generate_normal_learning_path asks for
PlanKeysNormal ==
    {"day", "title", "objectives", "content", "activities", "estimated_time", "resources",
     "key_concepts"}
\* the keys of the daily plans of _generate_demo_enhanced_path (lines 368-396)
PlanKeysEnhanced ==
    {"day", "title", "objectives", "content", "activities", "mcp_features", "estimated_time",
     "resources", "checkpoint"}
\* the keys of the daily plans of _fallback_adaptive_path (lines 255-260)
PlanKeysAdaptiveFallback == {"day", "title", "content", "mcp_features"}

\* the daily plans numbered by the sequence days: each carries the keys given
\* and a list of so many objectives
PlansOf(days, keys, objectives) ==
    [i \in 1..Len(days) |-> [day |-> days[i], keys |-> keys, objectives |-> objectives]]
\* [a, a+1, ..., b]
Range(a, b) == [i \in 1..(IF b >= a THEN b - a + 1 ELSE 0) |-> a + i - 1]

\* list(range(start, stop, step)) for a positive step
PyRange(start, stop, step) ==
    [i \in 1..(IF stop > start THEN (stop - start + step - 1) \div step ELSE 0) |->
        start + (i - 1) * step]

\* A path dict, as far as the pipeline reads and writes it. duration_kind
\* tells whether the key duration_days is missing, an int, or another type.
Path(kind, dd, plans, ai, type, points) ==
    [duration_kind |-> kind, duration_days |-> dd, daily_plans |-> plans,
     created_with_ai |-> ai, type |-> type, adaptation_points |-> points,
     has_langchain_features |-> FALSE, context_memory |-> 0,
     has_mcp_features |-> FALSE, adaptive_checkpoints |-> <<>>,
     learning_style_adaptations |-> "absent"]

\* GeminiClient._generate_demo_mcp_learning_path
GenerateDemoMcpLearningPath(duration) ==
    Path("int", duration, PlansOf(Range(1, duration), PlanKeysMcp, 3), FALSE, "mcp",
         PyRange(3, duration, 3))

\* GeminiClient._generate_demo_learning_path
GenerateDemoLearningPath(duration) ==
    Path("int", duration, PlansOf(Range(1, duration), PlanKeysNormal, 3), FALSE, "normal",
         <<>>)

Response(kind, duration_kind, dd, days) ==
    [kind |-> kind, duration_kind |-> duration_kind, duration_days |-> dd, days |-> days]

\* What the generator can answer to a request for d days: an error, an empty
\* text, text that is no JSON, JSON that is no object, or a JSON object: the
\* path asked for, one with a day missing, one with the days numbered from 2,
\* one that states d + 1 as its duration_days, one without duration_days and
\* one whose duration_days is a string.
Responses(d) ==
    { Response(k, "missing", 0, <<>>) : k \in {"raise", "empty", "unparseable", "not_object"} }
    \cup
    { Response("object", "int", d, Range(1, d)),
      Response("object", "int", d, Range(1, d - 1)),
      Response("object", "int", d, Range(2, d + 1)),
      Response("object", "int", d + 1, Range(1, d)),
      Response("object", "missing", 0, Range(1, d)),
      Response("object", "str", 0, Range(1, d)) }

\* a step's outcome: a value returned or an exception raised
Returned(path) == [raised |-> FALSE, path |-> <<path>>]
Raised == [raised |-> TRUE, path |-> <<>>]

\* lines 161-175 of generate_mcp_learning_path (87-93 of generate_normal_
\* learning_path): the call of the generator and the reading of its answer,
\* inside the try block. json.loads raises on text that is no JSON, and the
\* assignment learning_path['type'] raises on JSON that is no object.
ReadResponse(r, type, demo) ==
    CASE r.kind = "raise" -> Raised
      [] r.kind = "unparseable" -> Raised
      [] r.kind = "not_object" -> Raised
      [] r.kind = "empty" -> Returned(demo)
      [] OTHER -> Returned(Path(r.duration_kind, r.duration_days,
                                PlansOf(r.days,
                                        IF type = "mcp" THEN PlanKeysMcp ELSE PlanKeysNormal, 2),
                                TRUE, type, <<>>))

\* mutant of CatchAsDemo: no except block, the exception goes on to the caller
CatchNothing(outcome, demo) == outcome

\* the except block of generate_mcp_learning_path and of
\* generate_normal_learning_path: any exception gives the demo path
CatchAsDemo(outcome, demo) == IF outcome.raised THEN Returned(demo) ELSE outcome

\* generate_mcp_learning_path, from the generator's answer on
GenerateMcpLearningPath(r, duration) ==
    CatchAsDemo(ReadResponse(r, "mcp", GenerateDemoMcpLearningPath(duration)),
                GenerateDemoMcpLearningPath(duration))

\* generate_normal_learning_path, from the generator's answer on
GenerateNormalLearningPath(r, duration) ==
    CatchAsDemo(ReadResponse(r, "normal", GenerateDemoLearningPath(duration)),
                GenerateDemoLearningPath(duration))

\* _add_langchain_enhancements, lines 224-239: every daily plan is given its
\* interactive elements and its conversation starters
WithLangchainKeys(plans) ==
    [i \in 1..Len(plans) |->
        [plans[i] EXCEPT !.keys = @ \cup {"interactive_elements", "conversation_starters"}]]

\* mutant of AddLangchainEnhancements: once the conversation has a history the
\* last daily plan is dropped
AddLangchainEnhancementsTrimming(path, history_len) ==
    [path EXCEPT !.has_langchain_features = TRUE, !.context_memory = history_len,
                 !.daily_plans =
                     IF history_len > 0
                     THEN SubSeq(WithLangchainKeys(@), 1, Len(@) - 1)
                     ELSE WithLangchainKeys(@)]

\* LangChainIntegration._add_langchain_enhancements
AddLangchainEnhancements(path, history_len) ==
    [path EXCEPT !.has_langchain_features = TRUE, !.context_memory = history_len,
                 !.daily_plans = WithLangchainKeys(@)]

\* MCPIntegration._generate_checkpoints: the days of the checkpoints
GenerateCheckpoints(duration) == PyRange(CheckpointStep, duration + 1, CheckpointStep)

\* the context collect_user_context builds (its profile is fixed)
UserContext == [learning_style |-> "visual"]

\* MCPIntegration._get_learning_style_adaptations: the table row used
GetLearningStyleAdaptations(user_context) ==
    IF user_context.learning_style \in {"visual", "auditory", "kinesthetic", "mixed"}
    THEN user_context.learning_style
    ELSE "mixed"

\* MCPIntegration._add_mcp_features: learning_path['duration_days'] raises
\* KeyError when the key is missing, and range() raises TypeError when it is
\* no int
AddMcpFeatures(path, user_context) ==
    IF path.duration_kind # "int"
    THEN Raised
    ELSE Returned([path EXCEPT
             !.has_mcp_features = TRUE,
             !.adaptive_checkpoints = GenerateCheckpoints(path.duration_days),
             !.learning_style_adaptations = GetLearningStyleAdaptations(user_context)])

\* the path in hand
ThePath == learning_path[1]
TheRequest == request[1]

\* the user whose requests are followed
GenUsers == {"u1"}

\* create_learning_path, lines 17-27 and the choice of lines 30 and 39: the
\* validation of path_data
CreateLearningPathWith(goals, durations, difficulties, types) ==
    \E u \in GenUsers, g \in goals, d \in durations, df \in difficulties, ty \in types :
        /\ pc = "idle"
        /\ request' = <<[user |-> u, goal |-> g, duration |-> d, difficulty |-> df, type |-> ty]>>
        /\ IF g.len = 0 \/ d < 1 \/ d > MaxDuration
           THEN pc' = "done" /\ result' = "None"
           ELSE /\ pc' = IF ty = "mcp" THEN "collect_context" ELSE "normal_call"
                /\ UNCHANGED result
        /\ UNCHANGED <<client, attempt, gen_calls, learning_path, adaptive_outcome,
                       conversation_history, context_store, demo_data>>

\* create_learning_path called with any path_data
CreateLearningPath == CreateLearningPathWith(Goals, Durations, Difficulties, PathTypes)

\* collect_user_context, and the entry into the try block of
\* generate_adaptive_path up to the call of generate_mcp_learning_path
CollectUserContext ==
    /\ pc = "collect_context"
    /\ context_store' = context_store \cup {TheRequest.user}
    /\ attempt' = 1
    /\ pc' = "mcp_call"
    /\ UNCHANGED <<request, client, gen_calls, learning_path, adaptive_outcome, result,
                   conversation_history, demo_data>>

\* generate_mcp_learning_path has ended with outcome: in the try block the
\* path goes on to the enhancements and an exception to the except block; in
\* the except block the path is returned and an exception reaches the caller,
\* create_learning_path, whose own except block returns None
AfterGenerateMcp(outcome) ==
    /\ learning_path' = outcome.path
    /\ IF attempt = 1
       THEN /\ pc' = IF outcome.raised THEN "adaptive_except" ELSE "langchain_enhance"
            /\ UNCHANGED <<adaptive_outcome, result>>
       ELSE IF outcome.raised
            THEN pc' = "done" /\ adaptive_outcome' = "raised" /\ result' = "None"
            ELSE pc' = "generated" /\ adaptive_outcome' = "returned" /\ UNCHANGED result

\* generate_mcp_learning_path, lines 102-161: without a client the demo path
\* is returned, with one the generator is called
McpCall ==
    /\ pc = "mcp_call"
    /\ IF ~client
       THEN /\ AfterGenerateMcp(Returned(GenerateDemoMcpLearningPath(TheRequest.duration)))
            /\ UNCHANGED gen_calls
       ELSE /\ gen_calls' = gen_calls + 1
            /\ pc' = "mcp_wait"
            /\ UNCHANGED <<learning_path, adaptive_outcome, result>>
    /\ UNCHANGED <<request, client, attempt, conversation_history, context_store, demo_data>>

\* the generator answers the call of generate_mcp_learning_path
GeneratorAnswersMcp ==
    /\ pc = "mcp_wait"
    /\ \E r \in Responses(TheRequest.duration) :
           AfterGenerateMcp(GenerateMcpLearningPath(r, TheRequest.duration))
    /\ UNCHANGED <<request, client, attempt, gen_calls, conversation_history, context_store,
                   demo_data>>

\* _generate_with_langchain_style, lines 192-195, and
\* create_learning_path_with_context, lines 61-67
LangchainEnhance ==
    /\ pc = "langchain_enhance"
    /\ learning_path' = <<AddLangchainEnhancements(ThePath, conversation_history)>>
    /\ conversation_history' = conversation_history + 1
    /\ pc' = "add_features"
    /\ UNCHANGED <<request, client, attempt, gen_calls, adaptive_outcome, result,
                   context_store, demo_data>>

\* generate_adaptive_path, lines 93-96: _add_mcp_features and the return
AddFeatures ==
    /\ pc = "add_features"
    /\ IF AddMcpFeatures(ThePath, UserContext).raised
       THEN /\ pc' = "adaptive_except"
            /\ UNCHANGED <<learning_path, adaptive_outcome>>
       ELSE /\ learning_path' = AddMcpFeatures(ThePath, UserContext).path
            /\ adaptive_outcome' = "returned"
            /\ pc' = "generated"
    /\ UNCHANGED <<request, client, attempt, gen_calls, result, conversation_history,
                   context_store, demo_data>>

\* generate_adaptive_path, lines 98-106: the except block calls
\* generate_mcp_learning_path and returns what it returns
AdaptiveExcept ==
    /\ pc = "adaptive_except"
    /\ attempt' = 2
    /\ pc' = "mcp_call"
    /\ UNCHANGED <<request, client, gen_calls, learning_path, adaptive_outcome, result,
                   conversation_history, context_store, demo_data>>

\* generate_normal_learning_path has ended with outcome
AfterGenerateNormal(outcome) ==
    /\ learning_path' = outcome.path
    /\ IF outcome.raised
       THEN pc' = "done" /\ result' = "None"
       ELSE pc' = "generated" /\ UNCHANGED result

\* generate_normal_learning_path, lines 38-79
NormalCall ==
    /\ pc = "normal_call"
    /\ IF ~client
       THEN /\ AfterGenerateNormal(Returned(GenerateDemoLearningPath(TheRequest.duration)))
            /\ UNCHANGED gen_calls
       ELSE /\ gen_calls' = gen_calls + 1
            /\ pc' = "normal_wait"
            /\ UNCHANGED <<learning_path, result>>
    /\ UNCHANGED <<request, client, attempt, adaptive_outcome, conversation_history,
                   context_store, demo_data>>

\* the generator answers the call of generate_normal_learning_path
GeneratorAnswersNormal ==
    /\ pc = "normal_wait"
    /\ \E r \in Responses(TheRequest.duration) :
           AfterGenerateNormal(GenerateNormalLearningPath(r, TheRequest.duration))
    /\ UNCHANGED <<request, client, attempt, gen_calls, adaptive_outcome,
                   conversation_history, context_store, demo_data>>

\* FirestoreClient.save_learning_path in demo mode: the id is made of the
\* clock's second
SaveLearningPath(data, user_id, path, t) ==
    [data EXCEPT !.learning_paths = Put(@, t, [user_id |-> user_id, path |-> path])]

\* LearningService._initialize_progress_tracking: every day of the path is
\* stored as not completed
InitializeProgressTracking(data, user_id, path_id, duration) ==
    [data EXCEPT !.progress =
        Put(@, <<user_id, path_id>>, [day \in 1..duration |-> FALSE])]

\* create_learning_path, lines 48-66: the path is saved and its progress
\* initialised
SavePath ==
    /\ pc = "generated"
    /\ demo_data' = InitializeProgressTracking(
                        SaveLearningPath(demo_data, TheRequest.user, ThePath, now),
                        TheRequest.user, now, TheRequest.duration)
    /\ result' = "path_id"
    /\ pc' = "done"
    /\ UNCHANGED <<request, client, attempt, gen_calls, learning_path, adaptive_outcome,
                   conversation_history, context_store>>

InitGen ==
    /\ pc = "idle"
    /\ request = <<>>
    /\ client \in BOOLEAN
    /\ attempt = 0
    /\ gen_calls = 0
    /\ learning_path = <<>>
    /\ adaptive_outcome = "none"
    /\ result = "pending"
    /\ conversation_history = 0
    /\ context_store = {}
    /\ demo_data = [learning_paths |-> EmptyDict, progress |-> EmptyDict]

(***************************************************************************)
(* Learner context: MCPIntegration.collect_user_context and                *)
(* MCPIntegration._enhance_context_for_mcp                                 *)
(***************************************************************************)
\* largest average completion rate of the metrics handed to _assess_current_level
MaxRate == 100

VARIABLES
    context_call,        \* << >> or <<the latest building of a context: its inputs and results>>
    served,              \* history variable: the requests that have ended, with their results
    threads,             \* the calls of track_learning_progress under way, one per thread
    store0,              \* history variable: learning_analytics when these calls began
    updates              \* the calls of update_learning_progress under way, one per thread

\* the threads that call track_learning_progress at the same time
Threads == {"t1", "t2"}

concVars == <<threads, store0, updates>>
auxVars == <<context_call, served, concVars>>

\* a thread's call: where it stands, its arguments, whether the entry it
\* holds in 'analytics' has been replaced in the store since, and the list it
\* has sliced and not yet assigned
Call(pc_, user_id, path_id, daily_progress) ==
    [pc |-> pc_, user |-> user_id, path |-> path_id, progress |-> daily_progress,
     detached |-> FALSE, slice |-> <<>>]

\* a thread's call of update_learning_progress: where it stands, its
\* arguments, and the data it has loaded from the file
Update(pc_, user_id, path_id, day, completed) ==
    [pc |-> pc_, user |-> user_id, path |-> path_id, day |-> day, completed |-> completed,
     data |-> <<>>]

InitAux ==
    /\ context_call = <<>>
    /\ served = <<>>
    /\ threads = [t \in Threads |-> Call("idle", "u1", "p1", [day |-> 1])]
    /\ store0 = EmptyDict
    /\ updates = [t \in Threads |-> Update("idle", "u1", "p1", 1, FALSE)]

\* mutant of EstimateAvailableTime: 'morning' is looked for before the slots
\* are counted
EstimateAvailableTimeMorningFirst(preferences) ==
    IF \E i \in 1..Len(Get(preferences, "study_time_slots", <<"evening">>)) :
           Get(preferences, "study_time_slots", <<"evening">>)[i] = "morning"
    THEN "1-2 hours"
    ELSE IF Len(Get(preferences, "study_time_slots", <<"evening">>)) >= 2
         THEN "2-3 hours"
         ELSE "1 hour"

\* MCPIntegration._estimate_available_time
EstimateAvailableTime(preferences) ==
    IF Len(Get(preferences, "study_time_slots", <<"evening">>)) >= 2
    THEN "2-3 hours"
    ELSE IF \E i \in 1..Len(Get(preferences, "study_time_slots", <<"evening">>)) :
                Get(preferences, "study_time_slots", <<"evening">>)[i] = "morning"
         THEN "1-2 hours"
         ELSE "1 hour"

\* mutant of AssessCurrentLevel: the bands exclude their lower ends
AssessCurrentLevelExclusive(metrics) ==
    IF FracLT(FracInt(90), Get(metrics, "average_completion_rate", FracInt(50)))
    THEN "Advanced"
    ELSE IF FracLT(FracInt(70), Get(metrics, "average_completion_rate", FracInt(50)))
         THEN "Intermediate"
         ELSE "Beginner"

\* MCPIntegration._assess_current_level
AssessCurrentLevel(metrics) ==
    IF ~FracLT(Get(metrics, "average_completion_rate", FracInt(50)), FracInt(90))
    THEN "Advanced"
    ELSE IF ~FracLT(Get(metrics, "average_completion_rate", FracInt(50)), FracInt(70))
         THEN "Intermediate"
         ELSE "Beginner"

\* MCPIntegration._enhance_context_for_mcp, the fields the claims read
EnhanceContextForMcp(user_context) ==
    [learning_style |->
         Get(Get(user_context, "learning_profile", EmptyDict), "learning_style", "mixed"),
     pace_preference |->
         Get(Get(user_context, "learning_profile", EmptyDict), "pace_preference", "moderate"),
     time_per_day |-> EstimateAvailableTime(Get(user_context, "preferences", EmptyDict)),
     current_level |-> AssessCurrentLevel(Get(user_context, "performance_metrics", EmptyDict))]

\* the context collect_user_context(user_id) returns at time t: the stored
\* profile, preferences and metrics, which are fixed
CollectedContext(user_id, t) ==
    [user_id |-> user_id,
     timestamp |-> t,
     learning_profile |-> [learning_style |-> "visual", pace_preference |-> "moderate"],
     preferences |-> [study_time_slots |-> <<"morning", "evening">>],
     performance_metrics |-> [average_completion_rate |-> Frac(157, 2)]]

\* the learning style _get_learning_style_adaptations reads in a context
StyleOf(user_context) ==
    [learning_style |->
        Get(Get(user_context, "learning_profile", EmptyDict), "learning_style", "mixed")]

\* a building of a context: what went in and what came out
ContextCall(kind, context_data, user_context) ==
    [kind |-> kind, context_data |-> context_data, user_context |-> user_context,
     enhanced |-> EnhanceContextForMcp(user_context),
     style_adaptations |-> GetLearningStyleAdaptations(StyleOf(user_context))]

\* the fields of the context_data the creation form sends
ContextFields == {"learning_style", "current_level", "time_per_day", "pace_preference"}

\* the context_data of a caller that fills in the fields named
ContextData(fields, learning_style, current_level) ==
    [f \in fields |->
        CASE f = "learning_style" -> learning_style
          [] f = "current_level" -> current_level
          [] f = "time_per_day" -> "30 minutes"
          [] OTHER -> "fast"]

Keys == Users \X Paths

\* the report LearningService._track_mcp_progress sends for a completed day
McpProgress(day) ==
    [day |-> day, completed |-> TRUE, time_spent |-> 60,
     difficulty_rating |-> 3, satisfaction |-> 4]

\* the reports a direct caller of track_learning_progress sends
ReportFields ==
    { [completed |-> TRUE, time_spent |-> 60, difficulty_rating |-> 3, satisfaction |-> 4],
      [completed |-> FALSE, time_spent |-> 0, difficulty_rating |-> 5, satisfaction |-> 1],
      [completed |-> FALSE, time_spent |-> 150, difficulty_rating |-> 1, satisfaction |-> 3] }

Report(day, f) ==
    [day |-> day, completed |-> f.completed, time_spent |-> f.time_spent,
     difficulty_rating |-> f.difficulty_rating, satisfaction |-> f.satisfaction]

\* the reports that name a day of the path and carry every field
DayReports == { Report(d, f) : d \in Days, f \in ReportFields }

\* the number of days of the path the reports are about
DurationOf(path_id) == MaxDay

\* reports track_learning_progress is also handed: one without 'day', one for
\* day 0 and one for the day after the last, one with only its day, and one
\* whose time_spent is negative and whose difficulty_rating is above 5
OddReports ==
    { [completed |-> TRUE, time_spent |-> 60, difficulty_rating |-> 3, satisfaction |-> 4],
      McpProgress(0),
      McpProgress(MaxDay + 1),
      [day |-> 1],
      [day |-> 2, completed |-> TRUE, time_spent |-> 0 - 5, difficulty_rating |-> 7,
       satisfaction |-> 3] }

Reports == DayReports \cup OddReports

InitTrack ==
    /\ learning_analytics = EmptyDict
    /\ now = 0
    /\ computed = [k \in Keys |-> <<>>]
    /\ recent_calls = <<>>
    /\ free_used = 0
    /\ suggestions = <<>>

\* one call of track_learning_progress, start to return
DoTrack(user_id, path_id, daily_progress) ==
    /\ learning_analytics' =
           TrackLearningProgress(learning_analytics, user_id, path_id, daily_progress, now)
    /\ now' = now + 1
    /\ computed' = [computed EXCEPT ![<<user_id, path_id>>] =
                       Append(@, learning_analytics'[user_id][path_id].performance_trends[
                                     Len(learning_analytics'[user_id][path_id].performance_trends)])]
    /\ recent_calls' = LastN(Append(recent_calls,
                           [user |-> user_id, path |-> path_id, progress |-> daily_progress]), 2)
    /\ UNCHANGED <<suggestions, auxVars>>

\* the day after the one reported last, going round the days of the path
NextDay ==
    IF recent_calls = <<>> THEN 1
    ELSE (Get(recent_calls[Len(recent_calls)].progress, "day", 1) % MaxDay) + 1

\* LearningService._track_mcp_progress for the learner's next day
TrackMcpProgress ==
    /\ DoTrack("u1", "p1", McpProgress(NextDay))
    /\ UNCHANGED <<free_used, genVars>>

\* a direct call of track_learning_progress with any key, day and fields
TrackAny ==
    \E u \in Users, p \in Paths, dp \in Reports :
        /\ DoTrack(u, p, dp)
        /\ free_used' = free_used + 1
        /\ UNCHANGED genVars

\* the caller sends its latest report a second time
TrackAgain ==
    /\ recent_calls # <<>>
    /\ DoTrack(recent_calls[Len(recent_calls)].user, recent_calls[Len(recent_calls)].path,
               recent_calls[Len(recent_calls)].progress)
    /\ UNCHANGED <<free_used, genVars>>

vars == <<trackVars, genVars, auxVars>>

\* Path generation: one call of create_learning_path
NextGen ==
    \/ CreateLearningPath /\ UNCHANGED <<trackVars, auxVars>>
    \/ CollectUserContext /\ UNCHANGED <<trackVars, auxVars>>
    \/ McpCall /\ UNCHANGED <<trackVars, auxVars>>
    \/ GeneratorAnswersMcp /\ UNCHANGED <<trackVars, auxVars>>
    \/ LangchainEnhance /\ UNCHANGED <<trackVars, auxVars>>
    \/ AddFeatures /\ UNCHANGED <<trackVars, auxVars>>
    \/ AdaptiveExcept /\ UNCHANGED <<trackVars, auxVars>>
    \/ NormalCall /\ UNCHANGED <<trackVars, auxVars>>
    \/ GeneratorAnswersNormal /\ UNCHANGED <<trackVars, auxVars>>
    \/ SavePath /\ UNCHANGED <<trackVars, auxVars>>

InitSpecGen == InitTrack /\ InitGen /\ InitAux

SpecGen == InitSpecGen /\ [][NextGen]_vars

\* the tracker empty and the generation pipeline at rest
InitSpecTrack == InitTrack /\ InitGen /\ InitAux /\ client = FALSE


\* Progress tracking: the learner's days in turn, and MaxFree arbitrary reports
NextTrack ==
    \/ now < MaxReports /\ TrackMcpProgress
    \/ now < MaxReports /\ free_used < MaxFree /\ TrackAny

SpecTrack == InitSpecTrack /\ [][NextTrack]_vars

\* Trend history: an arbitrary first report, which may be sent twice, then
\* the learner's days in turn
NextHistory ==
    \/ now = 0 /\ TrackAny
    \/ now = 1 /\ TrackAgain
    \/ 0 < now /\ now < MaxHistReports /\ TrackMcpProgress

SpecHistory == InitSpecTrack /\ [][NextHistory]_vars

(***************************************************************************)
(* Daily progress: LearningService.update_daily_progress                   *)
(***************************************************************************)
\* largest day reported through update_daily_progress
MaxDailyDay == 3
\* number of completed days reported through update_daily_progress
MaxDailyReports == 3

\* FirestoreClient.update_learning_progress in demo mode:
\* data['progress'][key]['completed_days'][str(day)] = completed
UpdateLearningProgress(data, user_id, path_id, day, completed) ==
    [data EXCEPT !.progress =
        Put(@, <<user_id, path_id>>,
            Put(Get(@, <<user_id, path_id>>, EmptyDict), day, completed))]

\* mutant of UpdateDailyProgress: the tracker is told of every report, with
\* the report's completed flag
UpdateDailyProgressAlways ==
    \E u \in GenUsers, p \in Paths, day \in 1..MaxDailyDay, completed \in BOOLEAN :
        /\ demo_data' = UpdateLearningProgress(demo_data, u, p, day, completed)
        /\ DoTrack(u, p, [McpProgress(day) EXCEPT !.completed = completed])
        /\ UNCHANGED free_used
        /\ UNCHANGED <<pc, request, client, attempt, gen_calls, learning_path,
                       adaptive_outcome, result, conversation_history, context_store>>

\* update_daily_progress(user_id, path_id, day, completed): the store is
\* updated, and the tracker is told only when the day is completed
UpdateDailyProgress ==
    \E u \in GenUsers, p \in Paths, day \in 1..MaxDailyDay, completed \in BOOLEAN :
        /\ demo_data' = UpdateLearningProgress(demo_data, u, p, day, completed)
        /\ IF completed
           THEN DoTrack(u, p, McpProgress(day)) /\ UNCHANGED free_used
           ELSE UNCHANGED <<trackVars, auxVars>>
        /\ UNCHANGED <<pc, request, client, attempt, gen_calls, learning_path,
                       adaptive_outcome, result, conversation_history, context_store>>

NextDaily == now < MaxDailyReports /\ UpdateDailyProgress

SpecDaily == InitSpecTrack /\ [][NextDaily]_vars

(***************************************************************************)
(* Building a learner's context                                            *)
(***************************************************************************)
\* _enhance_context_for_mcp on a context with any profile, preferences and
\* metrics, each of which may lack its field
EnhanceContext ==
    \E has_style, has_slots, has_rate \in BOOLEAN,
       style \in {"visual", "auditory"},
       slots \in {<<>>, <<"morning">>, <<"evening">>, <<"morning", "evening">>,
                  <<"afternoon", "evening">>},
       rate \in 0..MaxRate :
        /\ context_call' =
               <<ContextCall("enhance", EmptyDict,
                    [learning_profile |->
                         IF has_style THEN [learning_style |-> style] ELSE EmptyDict,
                     preferences |->
                         IF has_slots THEN [study_time_slots |-> slots] ELSE EmptyDict,
                     performance_metrics |->
                         IF has_rate THEN [average_completion_rate |-> FracInt(rate)]
                         ELSE EmptyDict])>>
        /\ UNCHANGED <<trackVars, genVars, served, concVars>>

\* create_learning_path, lines 29-38, and generate_adaptive_path, line 78:
\* the context of a request whose path_data carries context_data
BuildContext ==
    \E u \in Users, fields \in SUBSET ContextFields,
       style \in {"visual", "auditory"}, level \in {"Beginner", "Advanced"} :
        /\ context_call' =
               <<ContextCall("build", ContextData(fields, style, level),
                             CollectedContext(u, now))>>
        /\ context_store' = context_store \cup {u}
        /\ UNCHANGED <<trackVars, pc, request, client, attempt, gen_calls, learning_path,
                       adaptive_outcome, result, conversation_history, demo_data, served,
                       concVars>>

\* one building of a context
NextContext ==
    \/ context_call = <<>> /\ EnhanceContext
    \/ context_call = <<>> /\ BuildContext

SpecContext == InitSpecTrack /\ [][NextContext]_vars

(***************************************************************************)
(* Requests one after the other, the generator unavailable                 *)
(***************************************************************************)
\* number of requests served one after the other
MaxRequests == 3
\* largest duration of these requests
MaxRepeatDuration == 7

\* create_learning_path has returned and is called again: the service and
\* the integrations are module-level objects that live on, the locals of the
\* call are gone
NextRequest ==
    /\ pc = "done"
    /\ Len(served) < MaxRequests
    /\ served' = Append(served, [request |-> TheRequest, outcome |-> adaptive_outcome,
                                 path |-> learning_path])
    /\ pc' = "idle"
    /\ request' = <<>>
    /\ attempt' = 0
    /\ gen_calls' = 0
    /\ learning_path' = <<>>
    /\ adaptive_outcome' = "none"
    /\ result' = "pending"
    /\ UNCHANGED <<trackVars, context_call, concVars, client, conversation_history,
                   context_store, demo_data>>

\* requests of type 'mcp' for a valid goal and difficulty, served in turn
\* without a generator
NextRepeat ==
    \/ /\ CreateLearningPathWith({[len |-> 12, stripped |-> 12, words |-> 2]},
                                 1..MaxRepeatDuration, {"beginner"}, {"mcp"})
       /\ UNCHANGED <<trackVars, auxVars>>
    \/ CollectUserContext /\ UNCHANGED <<trackVars, auxVars>>
    \/ McpCall /\ UNCHANGED <<trackVars, auxVars>>
    \/ LangchainEnhance /\ UNCHANGED <<trackVars, auxVars>>
    \/ AddFeatures /\ UNCHANGED <<trackVars, auxVars>>
    \/ SavePath /\ UNCHANGED <<trackVars, auxVars>>
    \/ NextRequest

SpecRepeat == InitSpecTrack /\ [][NextRepeat]_vars

(***************************************************************************)
(* Waiting for the generator: a request goes on by the orchestrator's own  *)
(* steps, which its thread takes one after the other, and by the answer of *)
(* the generator, which nothing in the code bounds in time                 *)
(***************************************************************************)
\* largest duration of the requests followed to their end
MaxWaitDuration == 3

\* the steps create_learning_path takes by itself
OwnSteps ==
    \/ CollectUserContext /\ UNCHANGED <<trackVars, auxVars>>
    \/ McpCall /\ UNCHANGED <<trackVars, auxVars>>
    \/ LangchainEnhance /\ UNCHANGED <<trackVars, auxVars>>
    \/ AddFeatures /\ UNCHANGED <<trackVars, auxVars>>
    \/ AdaptiveExcept /\ UNCHANGED <<trackVars, auxVars>>
    \/ NormalCall /\ UNCHANGED <<trackVars, auxVars>>
    \/ SavePath /\ UNCHANGED <<trackVars, auxVars>>

\* the generator returns from client.models.generate_content
GeneratorSteps ==
    \/ GeneratorAnswersMcp /\ UNCHANGED <<trackVars, auxVars>>
    \/ GeneratorAnswersNormal /\ UNCHANGED <<trackVars, auxVars>>

NextWait ==
    \/ /\ CreateLearningPathWith({[len |-> 12, stripped |-> 12, words |-> 2]},
                                 1..MaxWaitDuration, {"beginner"}, PathTypes)
       /\ UNCHANGED <<trackVars, auxVars>>
    \/ OwnSteps
    \/ GeneratorSteps

\* the orchestrator's steps are taken when they can be; nothing is assumed of
\* the generator
SpecWait == InitSpecGen /\ [][NextWait]_vars /\ WF_vars(OwnSteps)

(***************************************************************************)
(* The generators one by one: the local fallback generators,               *)
(* GeminiClient.generate_mcp_learning_path and                             *)
(* EnhancedMCPIntegration._generate_contextual_path                        *)
(***************************************************************************)
\* the dict d without its key k
Without(d, k) == [x \in (DOMAIN d) \ {k} |-> d[x]]

\* MCPIntegration._fallback_adaptive_path: the dict has 'mcp_features' with an
\* empty list of adaptive_checkpoints, and neither 'created_with_ai' nor
\* 'adaptation_points'
FallbackAdaptivePath(duration) ==
    Without(Without(
        [Path("int", duration, PlansOf(Range(1, duration), PlanKeysAdaptiveFallback, 0),
              FALSE, "mcp", <<>>) EXCEPT !.has_mcp_features = TRUE],
        "created_with_ai"), "adaptation_points")

\* EnhancedMCPIntegration._generate_demo_enhanced_path: its checkpoints are
\* under real_time_adaptation.adaptive_checkpoints
GenerateDemoEnhancedPath(duration) ==
    Put(Without(Path("int", duration, PlansOf(Range(1, duration), PlanKeysEnhanced, 3),
                     FALSE, "enhanced_mcp", <<>>),
                "adaptation_points"),
        "real_time_checkpoints", PyRange(3, duration, 3))

\* what the generator's JSON object says of created_with_ai
AiFlags == {"absent", "true", "false"}

\* _generate_contextual_path, lines 80-106: with a key of the user the
\* generator is called and its JSON object returned as it is, stamped only
\* with generated_with_user_key; an exception (the call, json.loads, the
\* stamping of what is no dict) or an empty text gives the demo path
GenerateContextualPath(has_key, r, flag, duration) ==
    IF has_key /\ r.kind = "object"
    THEN IF flag = "absent"
         THEN Without(Path(r.duration_kind, r.duration_days,
                           PlansOf(r.days, PlanKeysEnhanced, 1), FALSE, "enhanced_mcp", <<>>),
                      "created_with_ai")
         ELSE Path(r.duration_kind, r.duration_days, PlansOf(r.days, PlanKeysEnhanced, 1),
                   flag = "true", "enhanced_mcp", <<>>)
    ELSE GenerateDemoEnhancedPath(duration)

\* a generator is called with these inputs and returns path
Generated(generator, duration, has_client, response, flag, path) ==
    /\ request' = <<[generator |-> generator, duration |-> duration, client |-> has_client,
                     response |-> response, flag |-> flag]>>
    /\ learning_path' = <<path>>
    /\ pc' = "done"
    /\ UNCHANGED <<trackVars, auxVars, client, attempt, gen_calls, adaptive_outcome, result,
                   conversation_history, context_store, demo_data>>

CallDemoMcp ==
    \E d \in 1..MaxDuration :
        /\ pc = "idle"
        /\ Generated("demo_mcp", d, FALSE, <<>>, "absent", GenerateDemoMcpLearningPath(d))

CallDemoNormal ==
    \E d \in 1..MaxDuration :
        /\ pc = "idle"
        /\ Generated("demo_normal", d, FALSE, <<>>, "absent", GenerateDemoLearningPath(d))

CallFallbackAdaptive ==
    \E d \in 1..MaxDuration :
        /\ pc = "idle"
        /\ Generated("fallback_adaptive", d, FALSE, <<>>, "absent", FallbackAdaptivePath(d))

CallDemoEnhanced ==
    \E d \in 1..MaxDuration :
        /\ pc = "idle"
        /\ Generated("demo_enhanced", d, FALSE, <<>>, "absent", GenerateDemoEnhancedPath(d))

\* generate_mcp_learning_path with or without a client, whatever the
\* generator answers
CallGenerateMcp ==
    \E d \in 1..MaxDuration, c \in BOOLEAN : \E r \in Responses(d) :
        /\ pc = "idle"
        /\ Generated("generate_mcp", d, c, <<r>>, "absent",
                  IF c THEN GenerateMcpLearningPath(r, d).path[1]
                  ELSE GenerateDemoMcpLearningPath(d))

\* _generate_contextual_path with or without a key of the user, whatever the
\* generator answers
CallGenerateContextual ==
    \E d \in 1..MaxDuration, k \in BOOLEAN, flag \in AiFlags : \E r \in Responses(d) :
        /\ pc = "idle"
        /\ Generated("generate_contextual", d, k, <<r>>, flag,
                  GenerateContextualPath(k, r, flag, d))

NextGenerators ==
    \/ CallDemoMcp
    \/ CallDemoNormal
    \/ CallFallbackAdaptive
    \/ CallDemoEnhanced
    \/ CallGenerateMcp
    \/ CallGenerateContextual

SpecGenerators == InitSpecTrack /\ [][NextGenerators]_vars

(***************************************************************************)
(* Saving paths: FirestoreClient.save_learning_path as called by           *)
(* create_learning_path and by duplicate_learning_path                     *)
(***************************************************************************)
\* number of paths saved
MaxSaves == 3
\* number of seconds the clock goes through
MaxSeconds == 2
\* largest duration of the paths saved
MaxSaveDuration == 2

\* duplicate_learning_path, lines 344-352: the copy of a stored path; the
\* number of " (Copy)" its goal ends with is kept in 'copies'
Duplicated(path) ==
    [k \in (DOMAIN path) \cup {"copies"} |->
        IF k = "copies" THEN Get(path, "copies", 0) + 1 ELSE path[k]]

\* the clock passes to the next second
Tick ==
    /\ now < MaxSeconds
    /\ now' = now + 1
    /\ UNCHANGED <<learning_analytics, computed, recent_calls, free_used, suggestions,
                   genVars, auxVars>>

\* create_learning_path, lines 52-66, for a generated path of d days: the
\* path is saved under the id made of the clock's second and its progress is
\* initialised
SaveGenerated ==
    \E u \in Users, d \in 1..MaxSaveDuration :
        /\ Len(served) < MaxSaves
        /\ demo_data' = InitializeProgressTracking(
                            SaveLearningPath(demo_data, u, GenerateDemoLearningPath(d), now),
                            u, now, d)
        /\ served' = Append(served, [user |-> u, path_id |-> now])
        /\ UNCHANGED <<trackVars, context_call, concVars, pc, request, client, attempt,
                       gen_calls, learning_path, adaptive_outcome, result,
                       conversation_history, context_store>>

\* duplicate_learning_path(user_id, path_id) for a path the user owns
DuplicateLearningPath ==
    \E u \in Users, id \in DOMAIN demo_data.learning_paths :
        /\ Len(served) < MaxSaves
        /\ demo_data.learning_paths[id].user_id = u
        /\ demo_data' = InitializeProgressTracking(
                            SaveLearningPath(demo_data, u,
                                Duplicated(demo_data.learning_paths[id].path), now),
                            u, now, demo_data.learning_paths[id].path.duration_days)
        /\ served' = Append(served, [user |-> u, path_id |-> now])
        /\ UNCHANGED <<trackVars, context_call, concVars, pc, request, client, attempt,
                       gen_calls, learning_path, adaptive_outcome, result,
                       conversation_history, context_store>>

NextSave ==
    \/ Tick
    \/ SaveGenerated
    \/ DuplicateLearningPath

SpecSave == InitSpecTrack /\ [][NextSave]_vars

(***************************************************************************)
(* Threads in track_learning_progress: the module-level mcp_integration is *)
(* shared by the sessions' threads, and no lock is taken. A step is at     *)
(* least one statement; between two steps another thread may run.          *)
(***************************************************************************)
ConcPaths == {"p1", "p2"}
ConcKeys == Users \X ConcPaths

\* the reports the threads send
ConcReports ==
    { McpProgress(1), McpProgress(2),
      [day |-> 1, completed |-> FALSE, time_spent |-> 0, difficulty_rating |-> 5,
       satisfaction |-> 1] }

\* whether a thread holds, in 'analytics', the entry of (user_id, path_id)
HoldsEntry(th, user_id, path_id) ==
    th.pc \in {"slice", "assign"} /\ th.user = user_id /\ th.path = path_id

\* the threads after thread t has moved to pc_ and has replaced in the store
\* the entries of user_id's paths in replaced: a thread that holds one of them
\* holds an object the store no longer reaches
Moved(t, pc_, user_id, replaced) ==
    [x \in Threads |->
        IF x = t THEN [threads[x] EXCEPT !.pc = pc_]
        ELSE IF \E p \in replaced : HoldsEntry(threads[x], user_id, p)
             THEN [threads[x] EXCEPT !.detached = TRUE]
             ELSE threads[x]]

\* line 273: if user_id not in self.learning_analytics
CheckUser(t) ==
    /\ threads[t].pc = "check_user"
    /\ threads' = Moved(t, IF threads[t].user \in DOMAIN learning_analytics
                           THEN "check_path" ELSE "create_user", threads[t].user, {})
    /\ UNCHANGED learning_analytics

\* line 274: self.learning_analytics[user_id] = {}
CreateUser(t) ==
    /\ threads[t].pc = "create_user"
    /\ learning_analytics' = Put(learning_analytics, threads[t].user, EmptyDict)
    /\ threads' = Moved(t, "check_path", threads[t].user, ConcPaths)

\* line 276: if path_id not in self.learning_analytics[user_id]
CheckPath(t) ==
    /\ threads[t].pc = "check_path"
    /\ threads' = Moved(t, IF HasEntry(learning_analytics, threads[t].user, threads[t].path)
                           THEN "store" ELSE "create_path", threads[t].user, {})
    /\ UNCHANGED learning_analytics

\* lines 277-281: self.learning_analytics[user_id][path_id] = {...}
CreatePath(t) ==
    /\ threads[t].pc = "create_path"
    /\ learning_analytics' =
           SetEntry(learning_analytics, threads[t].user, threads[t].path, NewEntry)
    /\ threads' = Moved(t, "store", threads[t].user, {threads[t].path})

\* lines 284-291: the record of the day is stored; KeyError when the user's
\* dict no longer holds the path
StoreRecord(t) ==
    /\ threads[t].pc = "store"
    /\ IF HasEntry(learning_analytics, threads[t].user, threads[t].path)
       THEN /\ learning_analytics' =
                   SetEntry(learning_analytics, threads[t].user, threads[t].path,
                       [learning_analytics[threads[t].user][threads[t].path]
                           EXCEPT !.daily_progress =
                               UpsertRecord(@, Get(threads[t].progress, "day", 1),
                                            ProgressRecord(threads[t].progress, now))])
            /\ threads' = Moved(t, "trend", threads[t].user, {})
       ELSE /\ threads' = Moved(t, "raised", threads[t].user, {})
            /\ UNCHANGED learning_analytics

\* lines 300-327: analytics and daily_progress are fetched, the trend is
\* computed and appended to analytics['performance_trends']
AppendTrend(t) ==
    /\ threads[t].pc = "trend"
    /\ IF ~HasEntry(learning_analytics, threads[t].user, threads[t].path)
       THEN /\ threads' = Moved(t, "raised", threads[t].user, {})
            /\ UNCHANGED learning_analytics
       ELSE IF learning_analytics[threads[t].user][threads[t].path].daily_progress = <<>>
            THEN /\ threads' = Moved(t, "return", threads[t].user, {})
                 /\ UNCHANGED learning_analytics
            ELSE /\ learning_analytics' =
                        SetEntry(learning_analytics, threads[t].user, threads[t].path,
                            [learning_analytics[threads[t].user][threads[t].path]
                                EXCEPT !.performance_trends =
                                    Append(@, Trend(learning_analytics[threads[t].user][
                                                        threads[t].path].daily_progress, now))])
                 /\ threads' = Moved(t, "slice", threads[t].user, {})

\* line 330, right-hand side: analytics['performance_trends'][-30:]
SliceTrends(t) ==
    /\ threads[t].pc = "slice"
    /\ threads' =
           [threads EXCEPT ![t].pc = "assign",
                           ![t].slice =
                               IF threads[t].detached THEN <<>>
                               ELSE LastN(learning_analytics[threads[t].user][
                                              threads[t].path].performance_trends, TrendCap)]
    /\ UNCHANGED learning_analytics

\* line 330, the assignment: it reaches the store unless the entry held was
\* replaced there
AssignTrends(t) ==
    /\ threads[t].pc = "assign"
    /\ learning_analytics' =
           IF threads[t].detached THEN learning_analytics
           ELSE SetEntry(learning_analytics, threads[t].user, threads[t].path,
                    [learning_analytics[threads[t].user][threads[t].path]
                        EXCEPT !.performance_trends = threads[t].slice])
    /\ threads' = [threads EXCEPT ![t].pc = "return", ![t].detached = FALSE, ![t].slice = <<>>]

\* line 296: return self.learning_analytics[user_id][path_id]
ReturnEntry(t) ==
    /\ threads[t].pc = "return"
    /\ threads' = Moved(t, IF HasEntry(learning_analytics, threads[t].user, threads[t].path)
                           THEN "done" ELSE "raised", threads[t].user, {})
    /\ UNCHANGED learning_analytics

\* what no step of a thread changes
ConcFrame ==
    UNCHANGED <<now, computed, recent_calls, free_used, suggestions, genVars,
                context_call, served, store0, updates>>

\* a step of one of the threads
NextConc ==
    \/ \E t \in Threads : CheckUser(t) /\ ConcFrame
    \/ \E t \in Threads : CreateUser(t) /\ ConcFrame
    \/ \E t \in Threads : CheckPath(t) /\ ConcFrame
    \/ \E t \in Threads : CreatePath(t) /\ ConcFrame
    \/ \E t \in Threads : StoreRecord(t) /\ ConcFrame
    \/ \E t \in Threads : AppendTrend(t) /\ ConcFrame
    \/ \E t \in Threads : SliceTrends(t) /\ ConcFrame
    \/ \E t \in Threads : AssignTrends(t) /\ ConcFrame
    \/ \E t \in Threads : ReturnEntry(t) /\ ConcFrame

\* two calls begin together, on an empty store or on one that holds the
\* first day of ("u1", "p1")
InitSpecConc ==
    /\ InitGen /\ client = FALSE
    /\ context_call = <<>>
    /\ served = <<>>
    /\ now = 1
    /\ computed = [k \in Keys |-> <<>>]
    /\ recent_calls = <<>>
    /\ free_used = 0
    /\ suggestions = <<>>
    /\ learning_analytics \in
           { EmptyDict, TrackLearningProgress(EmptyDict, "u1", "p1", McpProgress(1), 0) }
    /\ store0 = learning_analytics
    /\ updates = [t \in Threads |-> Update("idle", "u1", "p1", 1, FALSE)]
    /\ \E k \in ConcKeys, dp1, dp2 \in ConcReports :
           threads = [t \in Threads |->
                         IF t = "t1" THEN Call("check_user", "u1", "p1", dp1)
                         ELSE Call("check_user", k[1], k[2], dp2)]

SpecConc == InitSpecConc /\ [][NextConc]_vars

(***************************************************************************)
(* Threads in FirestoreClient.update_learning_progress, demo mode: the     *)
(* data file is loaded, changed in memory and written back, and no lock is *)
(* taken                                                                   *)
(***************************************************************************)
\* largest day of the updates made at the same time
MaxUpdateDay == 2

\* line 156: data = self.load_demo_data()
LoadDemoData(t) ==
    /\ updates[t].pc = "load"
    /\ updates' = [updates EXCEPT ![t].pc = "save", ![t].data = <<demo_data>>]
    /\ UNCHANGED demo_data

\* lines 157-162: the day is set in the data loaded and the data is written
\* to the file
SaveDemoData(t) ==
    /\ updates[t].pc = "save"
    /\ demo_data' = UpdateLearningProgress(updates[t].data[1], updates[t].user,
                                           updates[t].path, updates[t].day,
                                           updates[t].completed)
    /\ updates' = [updates EXCEPT ![t].pc = "done", ![t].data = <<>>]

\* what no step of an update changes
UpdateFrame ==
    UNCHANGED <<trackVars, context_call, served, threads, store0, pc, request, client,
                attempt, gen_calls, learning_path, adaptive_outcome, result,
                conversation_history, context_store>>

NextStore ==
    \/ \E t \in Threads : LoadDemoData(t) /\ UpdateFrame
    \/ \E t \in Threads : SaveDemoData(t) /\ UpdateFrame

\* two updates begin together, on a file without progress or on one that
\* holds day 1 of ("u1", "p1") as not completed
InitSpecStore ==
    /\ InitTrack
    /\ pc = "idle"
    /\ request = <<>>
    /\ client = FALSE
    /\ attempt = 0
    /\ gen_calls = 0
    /\ learning_path = <<>>
    /\ adaptive_outcome = "none"
    /\ result = "pending"
    /\ conversation_history = 0
    /\ context_store = {}
    /\ context_call = <<>>
    /\ served = <<>>
    /\ threads = [t \in Threads |-> Call("idle", "u1", "p1", [day |-> 1])]
    /\ store0 = EmptyDict
    /\ demo_data \in
           { [learning_paths |-> EmptyDict, progress |-> EmptyDict],
             UpdateLearningProgress([learning_paths |-> EmptyDict, progress |-> EmptyDict],
                                    "u1", "p1", 1, FALSE) }
    /\ \E d1, d2 \in 1..MaxUpdateDay, c1, c2 \in BOOLEAN, u \in Users :
           updates = [t \in Threads |->
                         IF t = "t1" THEN Update("load", "u1", "p1", d1, c1)
                         ELSE Update("load", u, "p1", d2, c2)]

SpecStore == InitSpecStore /\ [][NextStore]_vars

(***************************************************************************)
(* Adaptation advisor: MCPIntegration.suggest_adaptations                  *)
(***************************************************************************)
\* largest avg_time_spent of the trends the advisor is given
MaxAvgTime == 150

Suggestion(type, priority) == [type |-> type, priority |-> priority]

\* mutant of CompletionSuggestions: the thresholds are inclusive
CompletionSuggestionsInclusive(completion_rate) ==
    IF ~FracLT(FracInt(50), completion_rate)
    THEN <<Suggestion("difficulty_reduction", "high")>>
    ELSE IF ~FracLT(completion_rate, FracInt(90))
         THEN <<Suggestion("difficulty_increase", "medium")>>
         ELSE <<>>

\* suggest_adaptations, lines 347-362
CompletionSuggestions(completion_rate) ==
    IF FracLT(completion_rate, FracInt(50))
    THEN <<Suggestion("difficulty_reduction", "high")>>
    ELSE IF FracLT(FracInt(90), completion_rate)
         THEN <<Suggestion("difficulty_increase", "medium")>>
         ELSE <<>>

\* suggest_adaptations, lines 364-379
TimeSuggestions(avg_time) ==
    IF FracLT(FracInt(120), avg_time)
    THEN <<Suggestion("content_reduction", "medium")>>
    ELSE IF FracLT(avg_time, FracInt(30))
         THEN <<Suggestion("content_expansion", "low")>>
         ELSE <<>>

\* mutant of SuggestAdaptationsOf: without a trend the rates are taken as 0
SuggestAdaptationsOfZeroRates(la, user_id, path_id) ==
    IF ~HasEntry(la, user_id, path_id) \/ la[user_id][path_id].performance_trends = <<>>
    THEN CompletionSuggestions(FracInt(0)) \o TimeSuggestions(FracInt(0))
    ELSE CompletionSuggestions(
             la[user_id][path_id].performance_trends[
                 Len(la[user_id][path_id].performance_trends)].completion_rate)
         \o TimeSuggestions(
             la[user_id][path_id].performance_trends[
                 Len(la[user_id][path_id].performance_trends)].avg_time_spent)

\* suggest_adaptations(user_id, path_id)
SuggestAdaptationsOf(la, user_id, path_id) ==
    IF ~HasEntry(la, user_id, path_id)
    THEN <<>>
    ELSE IF la[user_id][path_id].performance_trends = <<>>
         THEN <<>>
         ELSE CompletionSuggestions(
                  la[user_id][path_id].performance_trends[
                      Len(la[user_id][path_id].performance_trends)].completion_rate)
              \o TimeSuggestions(
                  la[user_id][path_id].performance_trends[
                      Len(la[user_id][path_id].performance_trends)].avg_time_spent)

\* one call of suggest_adaptations
SuggestAdaptations ==
    \E u \in Users, p \in Paths :
        /\ suggestions' = <<[user |-> u, path |-> p,
                             list |-> SuggestAdaptationsOf(learning_analytics, u, p)]>>
        /\ UNCHANGED <<learning_analytics, now, computed, recent_calls, free_used, genVars,
                       auxVars>>

\* the analytics of ("u1", "p1") hold one trend, of any completion rate in
\* 0..100 and any average time in 0..MaxAvgTime
InitSpecAdvise ==
    /\ InitGen /\ InitAux /\ client = FALSE
    /\ \E c \in 0..100, tm \in 0..MaxAvgTime :
           learning_analytics =
               SetEntry(EmptyDict, "u1", "p1",
                   [NewEntry EXCEPT !.performance_trends =
                       <<[date |-> 0, completion_rate |-> FracInt(c),
                          avg_time_spent |-> FracInt(tm),
                          avg_difficulty_rating |-> FracInt(3), days_analyzed |-> 1]>>])
    /\ now = 1
    /\ computed = [k \in Keys |-> <<>>]
    /\ recent_calls = <<>>
    /\ free_used = 0
    /\ suggestions = <<>>

NextAdvise == suggestions = <<>> /\ SuggestAdaptations

SpecAdvise == InitSpecAdvise /\ [][NextAdvise]_vars

\* the completion rates of the trends of the stores the advisor is asked about
AdvisedRates == {40, 70, 95}

\* what the store may hold for a key when suggest_adaptations is called:
\* nothing, an entry without a trend (as between lines 281 and 327 of a call
\* of track_learning_progress under way), or an entry with one trend
AdvisedEntries ==
    { NewEntry } \cup
    { [NewEntry EXCEPT !.performance_trends =
           <<[date |-> 0, completion_rate |-> FracInt(c), avg_time_spent |-> FracInt(60),
              avg_difficulty_rating |-> FracInt(3), days_analyzed |-> 1]>>] :
        c \in AdvisedRates }

\* the store with entry e under (user_id, path_id), or as it is when e is << >>
WithEntry(la, user_id, path_id, e) ==
    IF e = <<>> THEN la ELSE SetEntry(la, user_id, path_id, e[1])

\* any store over the keys ("u1", "p1"), ("u1", "p2") and ("u2", "p1")
InitSpecAdviseAny ==
    /\ InitGen /\ InitAux /\ client = FALSE
    /\ \E e1, e2, e3 \in {<<>>} \cup { <<e>> : e \in AdvisedEntries } :
           learning_analytics =
               WithEntry(WithEntry(WithEntry(EmptyDict, "u1", "p1", e1), "u1", "p2", e2),
                         "u2", "p1", e3)
    /\ now = 1
    /\ computed = [k \in Keys |-> <<>>]
    /\ recent_calls = <<>>
    /\ free_used = 0
    /\ suggestions = <<>>

SpecAdviseAny == InitSpecAdviseAny /\ [][NextAdvise]_vars

(***************************************************************************)
(* Claims about the progress tracker                                       *)
(***************************************************************************)
RECURSIVE SumOver(_, _)
\* the sum of f[x] over the finite set S
SumOver(S, f) ==
    IF S = {} THEN 0
    ELSE LET x == CHOOSE y \in S : TRUE IN f[x] + SumOver(S \ {x}, f)

Min(a, b) == IF a <= b THEN a ELSE b

LastCall == recent_calls[Len(recent_calls)]
EntryOf(c) == learning_analytics[c.user][c.path]
LastOf(seq) == seq[Len(seq)]
RecordedDays(e) == { e.daily_progress[i].key : i \in 1..Len(e.daily_progress) }
\* the at most TrendWindow recorded days with the largest day numbers
LargestDays(e) ==
    { d \in RecordedDays(e) :
        Cardinality({ x \in RecordedDays(e) : x > d }) < TrendWindow }

\* C2: the trend computed by the latest report is taken over the at most 7
\* recorded days with the largest day numbers: days_analyzed is min(7, number
\* of recorded days), completion_rate is 100 * completed / days_analyzed over
\* that window, and avg_time_spent and avg_difficulty_rating are the means
\* over the same window.
C2_TrendOverLargestDays ==
    recent_calls # <<>> =>
        LET e == EntryOf(LastCall)
            W == LargestDays(e)
            n == Min(TrendWindow, Cardinality(RecordedDays(e)))
            r == [d \in W |-> OGet(e.daily_progress, d)]
            t == LastOf(e.performance_trends)
        IN  /\ t.days_analyzed = n
            /\ FracEq(t.completion_rate,
                      Frac(100 * Cardinality({ d \in W : r[d].completed }), n))
            /\ FracEq(t.avg_time_spent,
                      Frac(SumOver(W, [d \in W |-> r[d].time_spent]), n))
            /\ FracEq(t.avg_difficulty_rating,
                      Frac(SumOver(W, [d \in W |-> r[d].difficulty_rating]), n))

\* C3: after n progress reports for one (user, path) its trend history holds
\* exactly the min(n, 30) most recently computed trends, oldest first; it is
\* never longer than 30, so that from the 31st computation on each new trend
\* has evicted exactly the oldest one.
C3_TrendHistoryCap ==
    \A k \in Keys :
        LET n == Len(computed[k])
            h == IF HasEntry(learning_analytics, k[1], k[2])
                 THEN learning_analytics[k[1]][k[2]].performance_trends
                 ELSE <<>>
        IN  /\ Len(h) = Min(n, 30)
            /\ \A i \in 1..Len(h) : h[i] = computed[k][n - Len(h) + i]

\* C3 witness: a history that has evicted its first trends
C3_Witness ==
    \E k \in Keys :
        /\ Len(computed[k]) > 31
        /\ HasEntry(learning_analytics, k[1], k[2])
        /\ Len(learning_analytics[k[1]][k[2]].performance_trends) = 30
        /\ learning_analytics[k[1]][k[2]].performance_trends[1] = computed[k][Len(computed[k]) - 29]

\* the fields of a trend that a report determines (its date is the clock's)
TrendValues(t) ==
    <<t.completion_rate, t.avg_time_spent, t.avg_difficulty_rating, t.days_analyzed>>
\* the progress records of an entry, without their timestamps
RecordsOf(e) ==
    { <<e.daily_progress[i].key,
        [e.daily_progress[i].value EXCEPT !.timestamp = 0]>> : i \in 1..Len(e.daily_progress) }

\* whether two entries show the same latest trend values and the same records
SameOutcome(e1, e2) ==
    /\ TrendValues(LastOf(e1.performance_trends)) = TrendValues(LastOf(e2.performance_trends))
    /\ RecordsOf(e1) = RecordsOf(e2)

\* C4: from any reachable tracker state, reporting the same (user, path, day,
\* fields) twice in succession yields a trend with the same completion_rate,
\* avg_time_spent, avg_difficulty_rating and days_analyzed as reporting it
\* once, and leaves the same set of progress records.
C4_ReportIdempotent ==
    \A u \in Users, p \in Paths, dp \in Reports :
        SameOutcome(
            TrackEntry(TrackEntry(EntryOrNew(learning_analytics, u, p), dp, now), dp, now + 1),
            TrackEntry(EntryOrNew(learning_analytics, u, p), dp, now))

\* C4 witness: a report was made twice in succession and the second one left
\* the trend values as the first one had computed them
C4_Witness ==
    /\ Len(recent_calls) = 2
    /\ recent_calls[1] = recent_calls[2]
    /\ Len(EntryOf(LastCall).performance_trends) >= 2
    /\ TrendValues(LastOf(EntryOf(LastCall).performance_trends))
         = TrendValues(EntryOf(LastCall).performance_trends[
                           Len(EntryOf(LastCall).performance_trends) - 1])

(***************************************************************************)
(* Claims about the adaptation advisor                                     *)
(***************************************************************************)
\* the latest trend of the (user, path) the advisor was asked about
AdvisedTrend ==
    LastOf(learning_analytics[suggestions[1].user][suggestions[1].path].performance_trends)

\* C6: suggest_adaptations returns exactly the sequence the rule table gives,
\* evaluated in fixed order: difficulty_reduction/high iff completion_rate < 50,
\* difficulty_increase/medium iff completion_rate > 90, content_reduction/medium
\* iff avg_time_spent > 120, content_expansion/low iff avg_time_spent < 30; the
\* completion-based suggestion precedes the time-based one and nothing else is
\* returned. (45, 60) gives only difficulty_reduction/high, (95, 150) gives
\* difficulty_increase/medium then content_reduction/medium, and the values
\* 50, 90, 30 and 120 fire no rule.
C6_SuggestionRules ==
    (suggestions # <<>> /\ HasEntry(learning_analytics, suggestions[1].user, suggestions[1].path)) =>
        LET c == AdvisedTrend.completion_rate
            tm == AdvisedTrend.avg_time_spent
            L == suggestions[1].list
            Has(s) == \E i \in 1..Len(L) : L[i] = s
            OfCompletion == {"difficulty_reduction", "difficulty_increase"}
            OfTime == {"content_reduction", "content_expansion"}
        IN  /\ Has(Suggestion("difficulty_reduction", "high")) <=> FracLT(c, FracInt(50))
            /\ Has(Suggestion("difficulty_increase", "medium")) <=> FracLT(FracInt(90), c)
            /\ Has(Suggestion("content_reduction", "medium")) <=> FracLT(FracInt(120), tm)
            /\ Has(Suggestion("content_expansion", "low")) <=> FracLT(tm, FracInt(30))
            /\ \A i \in 1..Len(L) :
                   L[i] \in { Suggestion("difficulty_reduction", "high"),
                              Suggestion("difficulty_increase", "medium"),
                              Suggestion("content_reduction", "medium"),
                              Suggestion("content_expansion", "low") }
            /\ \A i, j \in 1..Len(L) : i < j => L[i].type \in OfCompletion /\ L[j].type \in OfTime
            /\ (FracEq(c, FracInt(45)) /\ FracEq(tm, FracInt(60)))
                   => L = <<Suggestion("difficulty_reduction", "high")>>
            /\ (FracEq(c, FracInt(95)) /\ FracEq(tm, FracInt(150)))
                   => L = <<Suggestion("difficulty_increase", "medium"),
                            Suggestion("content_reduction", "medium")>>
            /\ (FracEq(c, FracInt(50)) \/ FracEq(c, FracInt(90)))
                   => \A i \in 1..Len(L) : L[i].type \notin OfCompletion
            /\ (FracEq(tm, FracInt(30)) \/ FracEq(tm, FracInt(120)))
                   => \A i \in 1..Len(L) : L[i].type \notin OfTime

\* C6 witness: the advisor answered for a trend at the threshold 50 of the
\* completion rate and above the threshold 120 of the time
C6_Witness ==
    /\ suggestions # <<>>
    /\ HasEntry(learning_analytics, suggestions[1].user, suggestions[1].path)
    /\ FracEq(AdvisedTrend.completion_rate, FracInt(50))
    /\ FracEq(AdvisedTrend.avg_time_spent, FracInt(121))
    /\ suggestions[1].list = <<Suggestion("content_reduction", "medium")>>

(***************************************************************************)
(* Claims about path generation                                            *)
(***************************************************************************)
\* the day numbers of the daily plans of a path
DayNumbers(path) == [i \in 1..Len(path.daily_plans) |-> path.daily_plans[i].day]

\* the multiples of 3 in [3, d], in increasing order
MultiplesOfThree(d) == [i \in 1..(IF d >= 3 THEN d \div 3 ELSE 0) |-> 3 * i]

\* the validation the design asks for: the goal, the duration, the difficulty
ValidInput(r) ==
    /\ validate_learning_goal(r.goal)
    /\ r.duration >= 1 /\ r.duration <= 90
    /\ r.difficulty \in DifficultyLevels

\* C1: whatever the generator answers, the path generate_adaptive_path
\* returns for a duration d has exactly d daily plans, numbered 1, 2, ..., d
\* in that order.
C1_ExactlyDDays ==
    adaptive_outcome = "returned" =>
        DayNumbers(ThePath) = Range(1, TheRequest.duration)

\* C5: the adaptive checkpoints attached to the returned path are exactly
\* one per multiple of 3 in [3, d] for the requested duration d, in increasing
\* day order, also when the generator's answer states another duration_days.
C5_CheckpointsOfRequestedDuration ==
    (adaptive_outcome = "returned" /\ ThePath.has_mcp_features) =>
        ThePath.adaptive_checkpoints = MultiplesOfThree(TheRequest.duration)

\* C7: within one generation request the generator is invoked at most once.
C7_GeneratorCalledAtMostOnce == gen_calls <= 1

\* C8: every path generate_adaptive_path returns carries the adaptive
\* checkpoints and the learning-style adaptations, whichever route built it.
C8_ReturnedPathIsEnhanced ==
    adaptive_outcome = "returned" =>
        /\ ThePath.has_mcp_features
        /\ ThePath.learning_style_adaptations # "absent"

\* C9: generate_adaptive_path never raises to its caller: whatever the
\* generator does, once it has ended it has returned a path.
C9_NeverRaises ==
    /\ adaptive_outcome # "raised"
    /\ (attempt >= 1 /\ pc \in {"generated", "done"}) =>
           (adaptive_outcome = "returned" /\ learning_path # <<>>)

\* C9 witness: a valid request for which the generator failed in the try
\* block and in the except block, and the demo path was returned
C9_Witness ==
    /\ adaptive_outcome = "returned"
    /\ ValidInput(TheRequest)
    /\ attempt = 2
    /\ gen_calls = 2
    /\ ~ThePath.created_with_ai
    /\ DayNumbers(ThePath) = Range(1, TheRequest.duration)

\* C10: a creation request with an empty goal, a goal of fewer than 2 words or
\* of more than 200 characters, a duration outside 1..90 or a difficulty
\* outside the four levels is rejected before anything else happens: the
\* generator is never invoked, nothing is saved, no progress is initialised.
C10_InvalidInputRejected ==
    (request # <<>> /\ ~ValidInput(TheRequest)) =>
        /\ gen_calls = 0
        /\ DOMAIN demo_data.learning_paths = {}
        /\ DOMAIN demo_data.progress = {}
        /\ result # "path_id"

(***************************************************************************)
(* Claims about the reports the tracker accepts                            *)
(***************************************************************************)
\* whether a report names a day of the path it is about
NamesDayOfPath(c) ==
    /\ "day" \in DOMAIN c.progress
    /\ c.progress.day \in 1..DurationOf(c.path)

\* C11: a progress report whose day is outside 1..duration_days of its path,
\* or that carries no day, is rejected: the call leaves every progress record
\* and every trend history as it was.
C11_OutOfRangeDayRejected ==
    [][ (now' = now + 1 /\ recent_calls' # <<>>) =>
            (~NamesDayOfPath(recent_calls'[Len(recent_calls')]) =>
                 learning_analytics' = learning_analytics) ]_vars

\* a fraction lies in [lo, hi]
FracWithin(x, lo, hi) == ~FracLT(x, FracInt(lo)) /\ ~FracLT(FracInt(hi), x)

\* C14: in every reachable tracker state every trend of every trend history
\* has its completion_rate within [0, 100], its avg_difficulty_rating within
\* [1, 5] and its avg_time_spent at least 0, whatever reports were accepted.
C14_TrendRanges ==
    \A k \in Keys :
        HasEntry(learning_analytics, k[1], k[2]) =>
            \A i \in 1..Len(learning_analytics[k[1]][k[2]].performance_trends) :
                /\ FracWithin(learning_analytics[k[1]][k[2]].performance_trends[i].completion_rate,
                              0, 100)
                /\ FracWithin(learning_analytics[k[1]][k[2]].performance_trends[i].avg_difficulty_rating,
                              1, 5)
                /\ ~FracLT(learning_analytics[k[1]][k[2]].performance_trends[i].avg_time_spent,
                           FracInt(0))

(***************************************************************************)
(* Claims about update_daily_progress                                      *)
(***************************************************************************)
\* C17: every report made through update_daily_progress, completing a day
\* or undoing it, creates or overwrites the tracker's record of (user, path,
\* day): the record exists and its completed flag is that of the latest
\* report for the day.
C17_RecordFollowsLatestReport ==
    \A k \in DOMAIN demo_data.progress :
        \A day \in DOMAIN demo_data.progress[k] :
            /\ HasEntry(learning_analytics, k[1], k[2])
            /\ OHas(learning_analytics[k[1]][k[2]].daily_progress, day)
            /\ OGet(learning_analytics[k[1]][k[2]].daily_progress, day).completed
                   = demo_data.progress[k][day]

(***************************************************************************)
(* Claims about what a report leaves alone                                 *)
(***************************************************************************)
\* the progress records of (u, p) in the store la, as a set of <<day, record>>
StoredRecords(la, u, p) ==
    IF HasEntry(la, u, p)
    THEN { <<la[u][p].daily_progress[i].key, la[u][p].daily_progress[i].value>> :
               i \in 1..Len(la[u][p].daily_progress) }
    ELSE {}

\* the call c has left the entries of the other keys and the records of the
\* other days of its own key as they were in the store before
LeavesRestAlone(before, after, c) ==
    /\ \A k \in Keys :
           k # <<c.user, c.path>> =>
               /\ HasEntry(after, k[1], k[2]) = HasEntry(before, k[1], k[2])
               /\ HasEntry(before, k[1], k[2]) => after[k[1]][k[2]] = before[k[1]][k[2]]
    /\ { r \in StoredRecords(after, c.user, c.path) : r[1] # Get(c.progress, "day", 1) }
           = { r \in StoredRecords(before, c.user, c.path) : r[1] # Get(c.progress, "day", 1) }

\* C18: a progress report for (user u, path p, day k) changes only the record
\* of day k of (u, p) and the trend history of (u, p): the records of the other
\* days of (u, p) and the entries of every other (user, path) are unchanged.
C18_ReportFrame ==
    [][ (now' = now + 1 /\ recent_calls' # <<>>) =>
            LeavesRestAlone(learning_analytics, learning_analytics',
                            recent_calls'[Len(recent_calls')]) ]_vars

\* C18 witness: a report was made for a key that holds the records of two
\* days, while another key holds an entry too
C18_Witness ==
    /\ recent_calls # <<>>
    /\ Cardinality(RecordedDays(EntryOf(LastCall))) >= 2
    /\ \E k \in Keys :
           /\ k # <<LastCall.user, LastCall.path>>
           /\ HasEntry(learning_analytics, k[1], k[2])

(***************************************************************************)
(* Claims about the learner's context                                      *)
(***************************************************************************)
TheContextCall == context_call[1]

\* the rows of the learning-style table
StyleRows == {"visual", "auditory", "kinesthetic", "mixed"}

\* C16: every field the caller supplies in its base context (learning_style,
\* pace_preference, time_per_day, current_level) is carried with the caller's
\* value by the context used for generation, and the style adaptations are
\* those of the caller's learning style; stored values fill only the fields
\* the caller left out.
C16_CallerContextOverrides ==
    (context_call # <<>> /\ TheContextCall.kind = "build") =>
        /\ \A f \in DOMAIN TheContextCall.context_data :
               TheContextCall.enhanced[f] = TheContextCall.context_data[f]
        /\ ("learning_style" \in DOMAIN TheContextCall.context_data
              /\ TheContextCall.context_data["learning_style"] \in StyleRows) =>
               TheContextCall.style_adaptations = TheContextCall.context_data["learning_style"]

\* C19: building a learner's context has no side effect: the context store
\* and the analytics store are after it as they were before.
C19_ContextBuildingPure ==
    [][ context_call' # context_call =>
            (context_store' = context_store /\ learning_analytics' = learning_analytics) ]_vars

\* the average completion rate the metrics of the context held, as a fraction
RateOf(call) == call.user_context.performance_metrics["average_completion_rate"]

\* C20: current_level follows the bands of the average completion rate r:
\* "Advanced" for r >= 90, "Intermediate" for 70 <= r < 90, "Beginner" for
\* r < 70, and "Beginner" when the metrics hold no completion rate.
C20_CurrentLevelBands ==
    context_call # <<>> =>
        IF "average_completion_rate" \in DOMAIN TheContextCall.user_context.performance_metrics
        THEN TheContextCall.enhanced.current_level =
                 CASE RateOf(TheContextCall).num >= 90 * RateOf(TheContextCall).den -> "Advanced"
                   [] RateOf(TheContextCall).num >= 70 * RateOf(TheContextCall).den
                      /\ RateOf(TheContextCall).num < 90 * RateOf(TheContextCall).den -> "Intermediate"
                   [] RateOf(TheContextCall).num < 70 * RateOf(TheContextCall).den -> "Beginner"
        ELSE TheContextCall.enhanced.current_level = "Beginner"

\* C20 witness: the level of a context whose completion rate is exactly 90
C20_Witness ==
    /\ context_call # <<>>
    /\ "average_completion_rate" \in DOMAIN TheContextCall.user_context.performance_metrics
    /\ RateOf(TheContextCall) = FracInt(90)
    /\ TheContextCall.enhanced.current_level = "Advanced"

(***************************************************************************)
(* Claims about requests served in turn                                    *)
(***************************************************************************)
\* what of a path its structure is: its day numbers and its checkpoint days
Structure(path) == <<Len(path.daily_plans), DayNumbers(path), path.adaptive_checkpoints>>

\* C15: with the generator unavailable, two generation requests with the same
\* goal, duration, difficulty and user return structurally identical paths:
\* the same number of daily plans, the same day numbers and the same
\* checkpoint days, whatever requests were served in between.
C15_FallbackDeterminism ==
    \A i, j \in 1..Len(served) :
        served[i].request = served[j].request =>
            /\ served[i].outcome = "returned"
            /\ served[j].outcome = "returned"
            /\ Structure(served[i].path[1]) = Structure(served[j].path[1])

\* C15 witness: the first and the third request were the same, another one
\* was served in between, and the two paths have checkpoints and differ in
\* what they remember of the conversation
C15_Witness ==
    /\ Len(served) = 3
    /\ served[1].request = served[3].request
    /\ served[2].request # served[1].request
    /\ served[1].path[1].adaptive_checkpoints # <<>>
    /\ ~served[1].path[1].created_with_ai
    /\ served[1].path[1].context_memory # served[3].path[1].context_memory

(***************************************************************************)
(* Claims about concurrent progress reports                                *)
(***************************************************************************)
\* every call has ended, by a return or by an exception
Finished == \A t \in Threads : threads[t].pc \in {"done", "raised"}

\* the calls are for one (user_id, path_id)
SameKey ==
    \A t, x \in Threads :
        threads[t].user = threads[x].user /\ threads[t].path = threads[x].path

\* the trend history of (u, p) in the store la
TrendsOf(la, u, p) == IF HasEntry(la, u, p) THEN la[u][p].performance_trends ELSE <<>>

\* C12: concurrent calls of track_learning_progress for one (user_id,
\* path_id) behave as if run one after the other: once all have returned, the
\* record of each reported day holds the fields of one of the reports for that
\* day, the trend history has gained one trend per call (up to the cap of 30)
\* and its last trend is the one of the final records; no call has failed.
C12_SameKeySerializable ==
    (Finished /\ SameKey) =>
        LET u == threads["t1"].user
            p == threads["t1"].path
        IN  /\ \A t \in Threads : threads[t].pc = "done"
            /\ HasEntry(learning_analytics, u, p)
            /\ \A t \in Threads :
                   /\ OHas(learning_analytics[u][p].daily_progress,
                           Get(threads[t].progress, "day", 1))
                   /\ \E x \in Threads :
                          /\ Get(threads[x].progress, "day", 1) = Get(threads[t].progress, "day", 1)
                          /\ [OGet(learning_analytics[u][p].daily_progress,
                                   Get(threads[t].progress, "day", 1)) EXCEPT !.timestamp = 0]
                                 = ProgressRecord(threads[x].progress, 0)
            /\ Len(TrendsOf(learning_analytics, u, p))
                   = Min(Len(TrendsOf(store0, u, p)) + Cardinality(Threads), 30)
            /\ TrendValues(LastOf(TrendsOf(learning_analytics, u, p)))
                   = TrendValues(Trend(learning_analytics[u][p].daily_progress, now))

\* C13: concurrent calls for different (user_id, path_id) keys, the first
\* reports for two paths of one user included, do not affect each other: once
\* both have returned, each key holds the record and the trend it would hold
\* had its call run alone.
C13_DifferentKeysIndependent ==
    (Finished /\ ~SameKey) =>
        \A t \in Threads :
            /\ threads[t].pc = "done"
            /\ HasEntry(learning_analytics, threads[t].user, threads[t].path)
            /\ SameOutcome(learning_analytics[threads[t].user][threads[t].path],
                           TrackEntry(EntryOrNew(store0, threads[t].user, threads[t].path),
                                      threads[t].progress, now))
            /\ Len(TrendsOf(learning_analytics, threads[t].user, threads[t].path))
                   = Len(TrackEntry(EntryOrNew(store0, threads[t].user, threads[t].path),
                                    threads[t].progress, now).performance_trends)

(***************************************************************************)
(* Claims about the fields derived for a context                           *)
(***************************************************************************)
\* the preferences the context of the latest building held
PreferencesOf(call) == call.user_context.preferences

\* C21: time_per_day follows the preferred study-time slots: "2-3 hours" for
\* two or more slots, "1-2 hours" for the single slot "morning", and "1 hour"
\* in every other case: one slot that is not "morning", an empty list of
\* slots, or preferences without slots.
C21_TimePerDayFromSlots ==
    context_call # <<>> =>
        TheContextCall.enhanced.time_per_day =
            IF "study_time_slots" \notin DOMAIN PreferencesOf(TheContextCall)
            THEN "1 hour"
            ELSE IF Len(PreferencesOf(TheContextCall).study_time_slots) >= 2
                 THEN "2-3 hours"
                 ELSE IF PreferencesOf(TheContextCall).study_time_slots = <<"morning">>
                      THEN "1-2 hours"
                      ELSE "1 hour"

\* C21 witness: the time estimated for the two slots "morning" and "evening"
C21_Witness ==
    /\ context_call # <<>>
    /\ "study_time_slots" \in DOMAIN PreferencesOf(TheContextCall)
    /\ PreferencesOf(TheContextCall).study_time_slots = <<"morning", "evening">>
    /\ TheContextCall.enhanced.time_per_day = "2-3 hours"

(***************************************************************************)
(* Claims about the advisor without a trend                                *)
(***************************************************************************)
\* the latest call of suggest_adaptations
TheAdvice == suggestions[1]

\* C24: suggest_adaptations returns the empty sequence and leaves the
\* analytics store as it was whenever the (user, path) asked about has no
\* trend: the user is unknown, the user is known and the path is not, or the
\* entry's trend history is empty.
C24_NoTrendNoSuggestion ==
    [][ suggestions' # suggestions =>
            /\ learning_analytics' = learning_analytics
            /\ TrendsOf(learning_analytics, suggestions'[1].user, suggestions'[1].path) = <<>>
                   => suggestions'[1].list = <<>> ]_vars

\* C24 witness: the advisor was asked about a path the store does not hold
\* for a user it knows by another path, and returned the empty sequence
C24_Witness ==
    /\ suggestions # <<>>
    /\ TheAdvice.user \in DOMAIN learning_analytics
    /\ TheAdvice.path \notin DOMAIN learning_analytics[TheAdvice.user]
    /\ DOMAIN learning_analytics[TheAdvice.user] # {}
    /\ TheAdvice.list = <<>>

(***************************************************************************)
(* Claims about what update_daily_progress tells the tracker               *)
(***************************************************************************)
\* every record of the store la is that of a completed day of 60 minutes and
\* difficulty 3, and every trend is 100 % completion, 60 minutes, difficulty 3
UniformAnalytics(la) ==
    \A k \in Keys :
        HasEntry(la, k[1], k[2]) =>
            /\ \A i \in 1..Len(la[k[1]][k[2]].daily_progress) :
                   /\ la[k[1]][k[2]].daily_progress[i].value.completed = TRUE
                   /\ la[k[1]][k[2]].daily_progress[i].value.time_spent = 60
                   /\ la[k[1]][k[2]].daily_progress[i].value.difficulty_rating = 3
            /\ \A i \in 1..Len(la[k[1]][k[2]].performance_trends) :
                   /\ FracEq(la[k[1]][k[2]].performance_trends[i].completion_rate, FracInt(100))
                   /\ FracEq(la[k[1]][k[2]].performance_trends[i].avg_time_spent, FracInt(60))
                   /\ FracEq(la[k[1]][k[2]].performance_trends[i].avg_difficulty_rating,
                             FracInt(3))

\* whether the store of completed days holds (key, day) as completed, a day
\* never reported counting as not undone
NotUndone(data, k, day) ==
    IF k \in DOMAIN data.progress /\ day \in DOMAIN data.progress[k]
    THEN data.progress[k][day]
    ELSE TRUE

\* C29: after any sequence of update_daily_progress calls every record the
\* tracker holds has completed = true, time_spent = 60 and difficulty_rating
\* = 3, every trend has completion_rate = 100, avg_time_spent = 60 and
\* avg_difficulty_rating = 3, and a call that undoes a day leaves the
\* tracker's records and trends as they were.
C29_TrackerSeesOnlyCompletedDays ==
    [][ /\ UniformAnalytics(learning_analytics')
        /\ (\E k \in DOMAIN demo_data'.progress :
               \E day \in DOMAIN demo_data'.progress[k] :
                   ~demo_data'.progress[k][day] /\ NotUndone(demo_data, k, day))
               => learning_analytics' = learning_analytics ]_vars

\* C29 witness: a day was reported completed and then undone, and the tracker
\* still holds its record, among the records of two days
C29_Witness ==
    /\ HasEntry(learning_analytics, "u1", "p1")
    /\ Len(learning_analytics["u1"]["p1"].daily_progress) >= 2
    /\ \E day \in 1..MaxDailyDay :
           /\ OHas(learning_analytics["u1"]["p1"].daily_progress, day)
           /\ <<"u1", "p1">> \in DOMAIN demo_data.progress
           /\ day \in DOMAIN demo_data.progress[<<"u1", "p1">>]
           /\ ~demo_data.progress[<<"u1", "p1">>][day]

(***************************************************************************)
(* Claims about the ids of saved paths                                     *)
(***************************************************************************)
\* C28: every save_learning_path returns a path id that no stored path has,
\* so a save, by create_learning_path or by duplicate_learning_path, leaves
\* every path stored before under its id and as it was, also when two saves
\* fall within one clock second or are made by different users.
C28_SavedIdIsFresh ==
    [][ served' # served =>
            /\ served'[Len(served')].path_id \notin DOMAIN demo_data.learning_paths
            /\ \A id \in DOMAIN demo_data.learning_paths :
                   /\ id \in DOMAIN demo_data'.learning_paths
                   /\ demo_data'.learning_paths[id] = demo_data.learning_paths[id] ]_vars

(***************************************************************************)
(* Claims about the learning-style hints                                   *)
(***************************************************************************)
\* the row of the style table for a learning style, "mixed" for any other
StyleRowFor(style) == IF style \in StyleRows THEN style ELSE "mixed"

\* C22: every daily plan of a path that went through the enhancement step
\* carries the adaptation hints, and the hints are those of the style table's
\* row for the context's learning style ("mixed" when it is unset or unknown).
C22_DailyPlansTagged ==
    (adaptive_outcome = "returned" /\ ThePath.has_mcp_features) =>
        /\ ThePath.learning_style_adaptations = StyleRowFor(UserContext.learning_style)
        /\ \A i \in 1..Len(ThePath.daily_plans) :
               "learning_style_adaptations" \in ThePath.daily_plans[i].keys

(***************************************************************************)
(* Claims about the generators                                             *)
(***************************************************************************)
\* the local fallback generators
FallbackGenerators == {"demo_mcp", "demo_normal", "fallback_adaptive", "demo_enhanced"}

\* C26: for every duration d in 1..90 each local fallback generator returns a
\* structurally valid path: duration_days = d, exactly d daily plans numbered
\* 1..d, and every daily plan has a title, a non-empty list of objectives,
\* content and activities.
C26_FallbackStructurallyValid ==
    (request # <<>> /\ TheRequest.generator \in FallbackGenerators) =>
        /\ ThePath.duration_kind = "int"
        /\ ThePath.duration_days = TheRequest.duration
        /\ DayNumbers(ThePath) = Range(1, TheRequest.duration)
        /\ \A i \in 1..Len(ThePath.daily_plans) :
               /\ {"title", "objectives", "content", "activities"}
                      \subseteq ThePath.daily_plans[i].keys
               /\ ThePath.daily_plans[i].objectives >= 1

\* the checkpoint days a fallback generator lists itself: adaptation_points,
\* or real_time_adaptation.adaptive_checkpoints
OwnCheckpoints(path) ==
    IF "adaptation_points" \in DOMAIN path
    THEN path.adaptation_points
    ELSE path.real_time_checkpoints

\* C27: the checkpoint list the fallback generators put on a path of d days
\* names every multiple of 3 up to and including d, and is the list of days
\* the enhancement step injects for d.
C27_OwnCheckpointsUpToDuration ==
    (request # <<>> /\ TheRequest.generator \in {"demo_mcp", "demo_enhanced"}) =>
        /\ OwnCheckpoints(ThePath) = MultiplesOfThree(TheRequest.duration)
        /\ OwnCheckpoints(ThePath) = GenerateCheckpoints(TheRequest.duration)

\* the daily plans of the path returned are those of the generator's response
FromGenerator ==
    /\ TheRequest.client
    /\ TheRequest.response[1].kind = "object"

\* C25: created_with_ai is true on a returned path exactly when its daily
\* plans come from the generator's response, and false exactly when the local
\* fallback built them (no generator, a failure, an empty answer).
C25_ProvenanceTellsRoute ==
    (request # <<>> /\ TheRequest.generator \in {"generate_mcp", "generate_contextual"}) =>
        /\ "created_with_ai" \in DOMAIN ThePath
        /\ ThePath.created_with_ai = FromGenerator

(***************************************************************************)
(* Claims about the end of a request                                       *)
(***************************************************************************)
\* C23: a generation request always completes: whether or not the generator
\* ever answers, create_learning_path eventually returns.
C23_RequestCompletes == (request # <<>>) ~> (pc = "done")

(***************************************************************************)
(* Claims about concurrent updates of the stored progress                  *)
(***************************************************************************)
\* every update has returned
AllUpdated == \A t \in Threads : updates[t].pc = "done"

\* the updates are for different days of one path or for different keys
DifferentDays ==
    \/ updates["t1"].day # updates["t2"].day
    \/ <<updates["t1"].user, updates["t1"].path>> # <<updates["t2"].user, updates["t2"].path>>

\* the stored progress holds the update of thread t
Persisted(t) ==
    /\ <<updates[t].user, updates[t].path>> \in DOMAIN demo_data.progress
    /\ updates[t].day \in DOMAIN demo_data.progress[<<updates[t].user, updates[t].path>>]
    /\ demo_data.progress[<<updates[t].user, updates[t].path>>][updates[t].day]
           = updates[t].completed

\* C30: two concurrent update_learning_progress calls on the demo-mode store,
\* for different days of one path or for different (user, path) keys, both
\* take effect: once both have returned the stored progress holds both.
C30_BothUpdatesPersist ==
    (AllUpdated /\ DifferentDays) => \A t \in Threads : Persisted(t)

====
